---- MODULE Spec2Model ----
(***************************************************************************)
(* Model of preprocess/preprocess.py: the chunker chunk_text, the page     *)
(* offset map and page lookup of the per-document loop, the record builder *)
(* and the embedding / index-writing phase of the main script.             *)
(*                                                                         *)
(* Strings are sequences of characters.  File names, ids and citations are *)
(* sequences of one-character strings; extracted page text is a sequence   *)
(* of position-tagged characters <<page, k>> (the k-th character of the    *)
(* page), so that a slice of the text identifies the span it was cut from. *)
(* Two specifications are defined:                                         *)
(*   SpecChunk  applies chunk_text to bounded (text, chunk_size, overlap); *)
(*   Spec       runs the main script over a bounded directory listing.     *)
(***************************************************************************)
EXTENDS Integers, Sequences, FiniteSets, TLC

VARIABLES
    pc,           \* position in the script
    files,        \* sorted(SOURCE_DIR.glob("*.pdf")) with what each file reads as
    chunk_size,   \* chunk_size argument of chunk_text (default CHUNK_SIZE)
    overlap,      \* overlap argument of chunk_text (default CHUNK_OVERLAP)
    idx,          \* number of files the for loop has consumed
    records,      \* records
    book_name,    \* loop local book_name
    pages,        \* loop local pages
    page_map,     \* loop local page_map
    combined,     \* loop local combined (the text argument of chunk_text)
    chunks,       \* loop local chunks (the value chunk_text returned)
    cum_lens,     \* loop local cum_lens
    all_texts,    \* all_texts
    embeddings,   \* what embedder.encode returned
    encode_calls, \* sequence of the arguments embedder.encode was called with
    index         \* sequence of the documents written to OUT_PATH

vars == <<pc, files, chunk_size, overlap, idx, records, book_name, pages,
          page_map, combined, chunks, cum_lens, all_texts, embeddings,
          encode_calls, index>>

-----------------------------------------------------------------------------
(* Settings *)

MODEL_NAME == "sentence-transformers/all-MiniLM-L6-v2"
MODEL_DIM == 384
CHUNK_SIZE == 1200
CHUNK_OVERLAP == 200

(* Bounds of the model *)

MaxLen == 6        \* SpecChunk: longest text
MaxChunk == 3      \* largest scaled-down chunk_size
MaxOverlap == 4    \* SpecChunk: largest overlap (reaches overlap >= chunk_size)
MaxPages == 2      \* Spec: pages in a scaled-down directory, all files together
MaxPageLen == 3    \* Spec: longest page text of a scaled-down directory

-----------------------------------------------------------------------------
(* Python built-ins *)

Min(a, b) == IF a < b THEN a ELSE b
Max(a, b) == IF a > b THEN a ELSE b

\* text[start:end] for 0 <= start <= end <= len(text)
Slice(text, start, end) == SubSeq(text, start + 1, end)

\* sep.join(parts)
RECURSIVE join(_, _)
join(sep, parts) ==
    IF parts = <<>> THEN <<>>
    ELSE IF Len(parts) = 1 THEN parts[1]
    ELSE join(sep, SubSeq(parts, 1, Len(parts) - 1)) \o sep \o parts[Len(parts)]

Digit == <<"0", "1", "2", "3", "4", "5", "6", "7", "8", "9">>

\* str(i) for an int i >= 0
RECURSIVE str(_)
str(i) == IF i < 10 THEN <<Digit[i + 1]>>
          ELSE str(i \div 10) \o <<Digit[(i % 10) + 1]>>

\* s.replace("_", " ")
replace_underscores(s) == [k \in 1..Len(s) |-> IF s[k] = "_" THEN " " ELSE s[k]]

\* np.cumsum(xs).tolist()
RECURSIVE cumsum(_)
cumsum(xs) ==
    IF xs = <<>> THEN <<>>
    ELSE LET p == cumsum(SubSeq(xs, 1, Len(xs) - 1))
         IN  Append(p, (IF p = <<>> THEN 0 ELSE p[Len(p)]) + xs[Len(xs)])

-----------------------------------------------------------------------------
(* chunk_text *)

RECURSIVE chunk_loop(_, _, _, _, _)
chunk_loop(text, start, step, size, acc) ==
    IF start < Len(text)
    THEN LET end == Min(Len(text), start + size)
         IN  chunk_loop(text, start + step, step, size,
                        Append(acc, Slice(text, start, end)))
    ELSE acc

\* chunk_text with the stride one too long
chunk_text_stride(text, size, ovl) ==
    chunk_loop(text, 0, Max(1, size - ovl + 1), size, <<>>)

\* chunk_text with `while start <= n`
RECURSIVE chunk_loop_le(_, _, _, _, _)
chunk_loop_le(text, start, step, size, acc) ==
    IF start <= Len(text)
    THEN LET end == Min(Len(text), start + size)
         IN  chunk_loop_le(text, start + step, step, size,
                           Append(acc, Slice(text, start, end)))
    ELSE acc

chunk_text_le(text, size, ovl) ==
    chunk_loop_le(text, 0, Max(1, size - ovl), size, <<>>)

chunk_text(text, size, ovl) ==
    chunk_loop(text, 0, Max(1, size - ovl), size, <<>>)

-----------------------------------------------------------------------------
(* Text of a page: its k-th character is <<page number, k>>. *)
PageText(pno, len) == [k \in 1..len |-> <<pno, k>>]

NL == <<0, 0>>

\* the states in which no file is being read
NoRun ==
    /\ files = <<>>
    /\ idx = 0
    /\ records = <<>>
    /\ book_name = <<>>
    /\ pages = <<>>
    /\ page_map = <<>>
    /\ cum_lens = <<>>
    /\ all_texts = <<>>
    /\ embeddings = <<>>
    /\ encode_calls = <<>>
    /\ index = <<>>

InitChunk ==
    /\ pc = "chunk_call"
    /\ NoRun
    /\ chunks = <<>>
    /\ \E len \in 0..MaxLen : combined = PageText(1, len)
    /\ chunk_size \in 1..MaxChunk
    /\ overlap \in 0..MaxOverlap

ChunkCall ==
    /\ pc = "chunk_call"
    /\ chunks' = chunk_text(combined, chunk_size, overlap)
    /\ pc' = "chunk_done"
    /\ UNCHANGED <<files, chunk_size, overlap, idx, records, book_name, pages,
                   page_map, combined, cum_lens, all_texts, embeddings,
                   encode_calls, index>>

NextChunk == ChunkCall

SpecChunk == InitChunk /\ [][NextChunk]_vars

-----------------------------------------------------------------------------
(* The directory: file names, and what pypdf makes of each file. *)

Suffix == <<".", "p", "d", "f">>

Names == { <<"a", " ", "b">> \o Suffix,
           <<"a", "_", "b">> \o Suffix,
           <<"b">> \o Suffix }

AlphaBeta == <<"A", "l", "p", "h", "a", " ", "B", "e", "t", "a">> \o Suffix

\* ord(c) of the characters of file names
CharCode == (" " :> 32) @@ ("." :> 46) @@ ("A" :> 65) @@ ("B" :> 66) @@
            ("_" :> 95) @@ ("a" :> 97) @@ ("b" :> 98) @@ ("d" :> 100) @@
            ("e" :> 101) @@ ("f" :> 102) @@ ("h" :> 104) @@ ("l" :> 108) @@
            ("p" :> 112) @@ ("t" :> 116)

\* s < t for two strings
StrLess(s, t) ==
    \E k \in 1..(Min(Len(s), Len(t)) + 1) :
        /\ \A j \in 1..(k - 1) : s[j] = t[j]
        /\ \/ k = Len(s) + 1 /\ k <= Len(t)
           \/ k <= Len(s) /\ k <= Len(t) /\ CharCode[s[k]] < CharCode[t[k]]

\* the values sorted(SOURCE_DIR.glob("*.pdf")) can have
SortedNames ==
    { s \in UNION { [1..n -> Names] : n \in 0..Cardinality(Names) } :
        \A i \in 1..Len(s) : \A j \in 1..Len(s) : i < j => StrLess(s[i], s[j]) }

PdfFile(name, readable, layout) ==
    [name |-> name, readable |-> readable, layout |-> layout]

\* page text lengths of a scaled-down directory, all files together
PageSeqs == UNION { [1..n -> 0..MaxPageLen] : n \in 0..MaxPages }

\* the ways to deal the pages ps out to k files in order
Cuts(ps, k) ==
    { c \in [0..k -> 0..Len(ps)] :
        /\ c[0] = 0
        /\ c[k] = Len(ps)
        /\ \A i \in 1..k : c[i - 1] <= c[i] }

ScaledListings ==
    UNION { UNION { { [i \in 1..Len(nl) |->
                         PdfFile(nl[i], i # u, SubSeq(ps, c[i - 1] + 1, c[i]))] :
                      c \in Cuts(ps, Len(nl)), u \in 0..Len(nl) } :
                    ps \in PageSeqs } :
            nl \in SortedNames }

ScaledConfigs ==
    { cfg \in (1..MaxChunk) \X (0..MaxChunk) : cfg[2] < cfg[1] }

\* directories read with the settings as shipped
FullSizeListings ==
    { <<PdfFile(AlphaBeta, TRUE, <<1000, 500>>)>>,
      <<PdfFile(AlphaBeta, TRUE, <<1500>>)>>,
      <<PdfFile(AlphaBeta, TRUE, <<1100, 1500>>)>> }

-----------------------------------------------------------------------------
(* read_pdf_text: [] for a file pypdf cannot open or decrypt, else the     *)
(* pages numbered from 1.                                                  *)
read_pdf_text(pdf) ==
    IF ~pdf.readable THEN <<>>
    ELSE [i \in 1..Len(pdf.layout) |-> <<i, PageText(i, pdf.layout[i])>>]

\* pdf.stem
stem(name) == SubSeq(name, 1, Len(name) - Len(Suffix))

BookName(pdf) == replace_underscores(stem(pdf.name))

\* page_map as the loop over pages builds it
build_page_map(pgs) ==
    [i \in 1..Len(pgs) |->
        <<pgs[i][1], Len(join(<<>>, [j \in 1..i |-> pgs[j][2]]))>>]

\* combined joined without the blank line between pages
build_combined_plain(pgs) == join(<<>>, [j \in 1..Len(pgs) |-> pgs[j][2]])

build_combined(pgs) == join(<<NL, NL>>, [j \in 1..Len(pgs) |-> pgs[j][2]])

build_cum_lens(chs) == cumsum(<<0>> \o [k \in 1..Len(chs) |-> Len(chs[k])])

find_page(pos, pmap) ==
    IF \E k \in 1..Len(pmap) : pos <= pmap[k][2]
    THEN pmap[CHOOSE k \in 1..Len(pmap) :
                /\ pos <= pmap[k][2]
                /\ \A j \in 1..(k - 1) : ~(pos <= pmap[j][2])][1]
    ELSE pmap[Len(pmap)][1]

\* approx_pages with end_char read one entry too early
approx_pages_early(start_idx, end_idx, cl, pmap) ==
    LET start_char == cl[start_idx + 1]
        end_char == cl[end_idx + 1]
    IN  <<find_page(start_char, pmap), find_page(end_char, pmap)>>

\* start_idx, end_idx are 0-based; cl is cum_lens
approx_pages(start_idx, end_idx, cl, pmap) ==
    LET start_char == cl[start_idx + 1]
        end_char == IF end_idx + 1 < Len(cl) THEN cl[end_idx + 2] ELSE cl[Len(cl)]
    IN  <<find_page(start_char, pmap), find_page(end_char, pmap)>>

\* record_id without the chunk index
record_id_no_index(book, i) == book \o <<"_", "_", "c", "h", "u", "n", "k", "_">>

record_id(book, i) == book \o <<"_", "_", "c", "h", "u", "n", "k", "_">> \o str(i)

record_source(name, p_start, p_end) ==
    name \o <<"#", "p", "p", ".">> \o str(p_start) \o <<"-">> \o str(p_end)

\* the record of chunk i (0-based)
build_record(pdf, book, i, ch, cl, pmap) ==
    LET pp == approx_pages(i, i, cl, pmap)
    IN  [id |-> record_id(book, i),
         book |-> book,
         chunk_id |-> i,
         text |-> ch,
         pages |-> pp,
         source |-> record_source(pdf.name, pp[1], pp[2])]

-----------------------------------------------------------------------------
(* The main script *)

Init ==
    /\ pc = "docs"
    /\ idx = 0
    /\ records = <<>>
    /\ book_name = <<>>
    /\ pages = <<>>
    /\ page_map = <<>>
    /\ combined = <<>>
    /\ chunks = <<>>
    /\ cum_lens = <<>>
    /\ all_texts = <<>>
    /\ embeddings = <<>>
    /\ encode_calls = <<>>
    /\ index = <<>>
    /\ \/ /\ chunk_size = CHUNK_SIZE
          /\ overlap = CHUNK_OVERLAP
          /\ files \in FullSizeListings
       \/ /\ \E cfg \in ScaledConfigs : chunk_size = cfg[1] /\ overlap = cfg[2]
          /\ files \in ScaledListings

\* one iteration of the for loop that hits `continue`
SkipDoc ==
    /\ pc = "docs"
    /\ idx < Len(files)
    /\ read_pdf_text(files[idx + 1]) = <<>>
    /\ idx' = idx + 1
    /\ book_name' = BookName(files[idx + 1])
    /\ pages' = <<>>
    /\ UNCHANGED <<pc, files, chunk_size, overlap, records, page_map, combined,
                   chunks, cum_lens, all_texts, embeddings, encode_calls, index>>

\* one full iteration of the for loop
ProcessDoc ==
    /\ pc = "docs"
    /\ idx < Len(files)
    /\ LET pdf == files[idx + 1]
           book == BookName(pdf)
           pgs == read_pdf_text(pdf)
           pmap == build_page_map(pgs)
           comb == build_combined(pgs)
           chs == chunk_text(comb, chunk_size, overlap)
           cl == build_cum_lens(chs)
       IN  /\ pgs # <<>>
           /\ idx' = idx + 1
           /\ book_name' = book
           /\ pages' = pgs
           /\ page_map' = pmap
           /\ combined' = comb
           /\ chunks' = chs
           /\ cum_lens' = cl
           /\ records' = records \o
                [k \in 1..Len(chs) |-> build_record(pdf, book, k - 1, chs[k], cl, pmap)]
    /\ UNCHANGED <<pc, files, chunk_size, overlap, all_texts, embeddings,
                   encode_calls, index>>

\* embedder.encode(texts): the collaborator's result, one vector per text
\* by contract; the script does not check the count, so any count is modelled
Vector(k) == [of |-> k, dim |-> MODEL_DIM]
EncodeResults(texts) ==
    { [k \in 1..m |-> Vector(k)] : m \in 0..(Len(texts) + 1) }

\* Encode without `if all_texts`
EncodeUnguarded ==
    /\ pc = "docs"
    /\ idx = Len(files)
    /\ LET texts == [k \in 1..Len(records) |-> records[k].text]
       IN  /\ all_texts' = texts
           /\ encode_calls' = Append(encode_calls, texts)
           /\ embeddings' \in EncodeResults(texts)
    /\ pc' = "attach"
    /\ UNCHANGED <<files, chunk_size, overlap, idx, records, book_name, pages,
                   page_map, combined, chunks, cum_lens, index>>

\* the loop is exhausted and there are texts: embedder.encode(all_texts)
Encode ==
    /\ pc = "docs"
    /\ idx = Len(files)
    /\ LET texts == [k \in 1..Len(records) |-> records[k].text]
       IN  /\ texts # <<>>
           /\ all_texts' = texts
           /\ encode_calls' = Append(encode_calls, texts)
           /\ embeddings' \in EncodeResults(texts)
    /\ pc' = "attach"
    /\ UNCHANGED <<files, chunk_size, overlap, idx, records, book_name, pages,
                   page_map, combined, chunks, cum_lens, index>>

\* the loop is exhausted and all_texts is empty: nothing but the final print
NoEmbed ==
    /\ pc = "docs"
    /\ idx = Len(files)
    /\ records = <<>>
    /\ all_texts' = <<>>
    /\ pc' = "done"
    /\ UNCHANGED <<files, chunk_size, overlap, idx, records, book_name, pages,
                   page_map, combined, chunks, cum_lens, embeddings, encode_calls,
                   index>>

WithEmbedding(rec, v) == [embedding |-> v] @@ rec

IndexDoc(recs, embs) ==
    [records |-> recs,
     metadata |-> [model |-> MODEL_NAME,
                   chunk_size |-> CHUNK_SIZE,
                   chunk_overlap |-> CHUNK_OVERLAP,
                   total_chunks |-> Len(recs),
                   embedding_dim |-> IF Len(embs) > 0 THEN embs[1].dim ELSE 0]]

\* rec["embedding"] = embeddings[i] for every record, then json.dump
AttachWrite ==
    /\ pc = "attach"
    /\ Len(embeddings) >= Len(records)
    /\ records' = [k \in 1..Len(records) |-> WithEmbedding(records[k], embeddings[k])]
    /\ index' = Append(index, IndexDoc(records', embeddings))
    /\ pc' = "done"
    /\ UNCHANGED <<files, chunk_size, overlap, idx, book_name, pages, page_map,
                   combined, chunks, cum_lens, all_texts, embeddings, encode_calls>>

\* embeddings[i] raises IndexError at the first record without a vector
AttachFail ==
    /\ pc = "attach"
    /\ Len(embeddings) < Len(records)
    /\ records' = [k \in 1..Len(records) |->
                      IF k <= Len(embeddings)
                      THEN WithEmbedding(records[k], embeddings[k])
                      ELSE records[k]]
    /\ pc' = "aborted"
    /\ UNCHANGED <<files, chunk_size, overlap, idx, book_name, pages, page_map,
                   combined, chunks, cum_lens, all_texts, embeddings, encode_calls,
                   index>>

Next ==
    \/ SkipDoc
    \/ ProcessDoc
    \/ Encode
    \/ NoEmbed
    \/ AttachWrite
    \/ AttachFail

Spec == Init /\ [][Next]_vars

-----------------------------------------------------------------------------
(* Properties *)

\* offset in the text of the position-tagged character ch of a one-page text
Offset(ch) == ch[2] - 1
ChunkStart(i) == Offset(chunks[i][1])
ChunkEnd(i) == Offset(chunks[i][Len(chunks[i])]) + 1
Step == Max(1, chunk_size - overlap)

\* C1: for a valid configuration (chunk_size > 0, 0 <= overlap < chunk_size)
\* every chunk chunk_text returns is a span of the text of length at most
\* chunk_size, every character position of the text lies in some chunk, and
\* no chunk starts after the end of the chunk before it.
C1_ChunkCoverage ==
    (pc = "chunk_done" /\ overlap < chunk_size) =>
        /\ \A i \in 1..Len(chunks) :
              /\ Len(chunks[i]) >= 1
              /\ Len(chunks[i]) <= chunk_size
              /\ chunks[i] = Slice(combined, ChunkStart(i), ChunkEnd(i))
        /\ \A p \in 1..Len(combined) :
              \E i \in 1..Len(chunks) :
                  \E k \in 1..Len(chunks[i]) : chunks[i][k] = combined[p]
        /\ \A i \in 1..(Len(chunks) - 1) : ChunkStart(i + 1) <= ChunkEnd(i)

C1_Witness ==
    /\ pc = "chunk_done"
    /\ 0 < overlap
    /\ overlap < chunk_size
    /\ Len(chunks) >= 3
    /\ Len(chunks[Len(chunks)]) < chunk_size

\* the windows text[i*step : min(i*step + chunk_size, L)] for i*step < L
Windows(text, size, step) ==
    [w \in 1..((Len(text) + step - 1) \div step) |->
        Slice(text, (w - 1) * step, Min((w - 1) * step + size, Len(text)))]

\* C2: for every chunk_size > 0 and overlap >= 0, overlap >= chunk_size
\* included, chunk_text returns exactly the windows
\* text[i*step : min(i*step + chunk_size, L)] for i = 0, 1, ... while
\* i*step < L, with step = max(1, chunk_size - overlap); consecutive chunk
\* starts differ by step, and the empty text yields no chunk.
C2_ChunkerResult ==
    pc = "chunk_done" =>
        /\ chunks = Windows(combined, chunk_size, Step)
        /\ \A i \in 1..Len(chunks) : Len(chunks[i]) >= 1
        /\ \A i \in 1..(Len(chunks) - 1) : ChunkStart(i + 1) - ChunkStart(i) = Step
        /\ combined = <<>> => chunks = <<>>

C2_Witness ==
    /\ pc = "chunk_done"
    /\ overlap >= chunk_size
    /\ chunk_size >= 2
    /\ Len(chunks) >= 3

\* the records of the document the loop processed last
DocRecords == SubSeq(records, Len(records) - Len(chunks) + 1, Len(records))

\* C3: the cumulative counts of the page offset map are non-decreasing in
\* page order and the last one equals the length of the text handed to the
\* chunker.
C3_PageMapEndsAtTextLength ==
    page_map # <<>> =>
        /\ \A k \in 1..(Len(page_map) - 1) : page_map[k][2] <= page_map[k + 1][2]
        /\ page_map[Len(page_map)][2] = Len(combined)

\* C4: the start page of the record of chunk i is the page lookup of the
\* chunk's own start offset i * step in the document text.
C4_StartPageOfChunkStart ==
    \A i \in 1..Len(chunks) :
        DocRecords[i].pages[1] = find_page((i - 1) * Step, page_map)

\* C5 as stated: in every record end_page equals start_page.
C5_EndPageEqualsStartPage ==
    \A k \in 1..Len(records) : records[k].pages[2] = records[k].pages[1]

\* total length of the chunks of the last document before chunk i (1-based)
RECURSIVE LensBefore(_)
LensBefore(i) == IF i <= 1 THEN 0 ELSE LensBefore(i - 1) + Len(DocRecords[i - 1].text)

\* C5 amended: in every record end_page >= start_page; start_page is the
\* page lookup of the total length of the document's earlier chunks and
\* end_page the page lookup of that position plus the chunk's own length.
C5_EndPageOfChunkEnd ==
    /\ \A k \in 1..Len(records) : records[k].pages[1] <= records[k].pages[2]
    /\ \A i \in 1..Len(chunks) :
          /\ DocRecords[i].pages[1] = find_page(LensBefore(i), page_map)
          /\ DocRecords[i].pages[2] =
                find_page(LensBefore(i) + Len(DocRecords[i].text), page_map)

C5_Witness ==
    \E k \in 1..Len(records) : records[k].pages[1] < records[k].pages[2]

RecordTexts == [k \in 1..Len(records) |-> records[k].text]

\* C6: the embedding collaborator is invoked only once the for loop has
\* consumed every file, at most once, with the texts of all records in
\* record order; a run that ends with records has invoked it exactly once,
\* and a run without records never invokes it and writes no index.
C6_EmbedOnceAfterAllDocuments ==
    /\ Len(encode_calls) <= 1
    /\ encode_calls # <<>> =>
          /\ idx = Len(files)
          /\ records # <<>>
          /\ encode_calls[1] = RecordTexts
    /\ pc = "docs" => encode_calls = <<>>
    /\ (pc \in {"attach", "done", "aborted"} /\ records # <<>>) =>
          Len(encode_calls) = 1
    /\ (pc = "done" /\ records = <<>>) => (encode_calls = <<>> /\ index = <<>>)

C6_Witness ==
    /\ pc = "done"
    /\ idx >= 2
    /\ Len(encode_calls) = 1
    /\ Len(encode_calls[1]) >= 3
    /\ \E k \in 1..Len(records) : records[k].book # records[1].book
    /\ Len(index) = 1

\* C7: when the collaborator returns a number of vectors different from the
\* number of records the run aborts and writes no index.
C7_CountMismatchAborts ==
    (pc \in {"done", "aborted"} /\ encode_calls # <<>>
        /\ Len(embeddings) # Len(all_texts)) =>
        (pc = "aborted" /\ index = <<>>)

DistinctBookNames ==
    \A i \in 1..Len(files) : \A j \in 1..Len(files) :
        i # j => BookName(files[i]) # BookName(files[j])

\* C8: when the book names of the files are pairwise distinct, no two
\* records have the same id.
C8_RecordIdsUnique ==
    DistinctBookNames =>
        \A a \in 1..Len(records) : \A b \in 1..Len(records) :
            a # b => records[a].id # records[b].id

C8_Witness ==
    /\ DistinctBookNames
    /\ idx = Len(files)
    /\ Len(records) >= 4
    /\ \E a \in 1..Len(records) : \E b \in 1..Len(records) :
          /\ records[a].book # records[b].book
          /\ records[a].chunk_id = records[b].chunk_id
          /\ records[a].chunk_id >= 1

RECURSIVE SumPageLens(_)
SumPageLens(k) == IF k = 0 THEN 0 ELSE SumPageLens(k - 1) + Len(pages[k][2])

Chunk0Id == <<"A", "l", "p", "h", "a", " ", "B", "e", "t", "a",
              "_", "_", "c", "h", "u", "n", "k", "_", "0">>
Chunk1Id == <<"A", "l", "p", "h", "a", " ", "B", "e", "t", "a",
              "_", "_", "c", "h", "u", "n", "k", "_", "1">>

ScenarioRun ==
    /\ idx = 1
    /\ chunk_size = CHUNK_SIZE
    /\ overlap = CHUNK_OVERLAP
    /\ files[1].layout = <<1000, 500>>

C10_LookupWithinPageMap ==
    page_map # <<>> =>
        LET last == page_map[Len(page_map)]
        IN  /\ \A k \in 1..Len(cum_lens) : cum_lens[k] <= last[2]
            /\ find_page(last[2] + 1, page_map) = last[1]

====
